---------------------------- MODULE Spec2Model ----------------------------
(***************************************************************************)
(* A model of the BERTMasker token-mask layer (bertmasker_lcr.py) and of   *)
(* the book/hotel corpus reader (data_book_hotel.py).                      *)
(*                                                                         *)
(* Tensors are followed along one batch row: every tensor operation of     *)
(* SharedPart.forward is row-wise (sums run over dim=1, the sequence), and *)
(* the hidden dimension is 1.  Real numbers are exact: rationals for the   *)
(* gate, and decimal fixed point with nine places for the exponentials, so *)
(* that the additive 1e-9 of softmask_with_mask is one unit in the last    *)
(* place.                                                                  *)
(***************************************************************************)
EXTENDS Integers, Sequences, FiniteSets, TLC

VARIABLES
    \* ---- SharedPart (bertmasker_lcr.py) ----
    pc,                 \* position of the forward pass: "gate", "pool", "done"
    masking,            \* self.masking, a rational
    temp,               \* self.temp: the model keeps 1/tau, an integer
    P,                  \* the gate tensor, a sequence of <<P[..,0], P[..,1]>>
    segments_tensor,    \* real-token mask of the row
    hidden_embeddings,  \* H
    input_embedding,
    input_e,            \* returned masked input embeddings
    private_rep2,       \* pooled private vector
    private_rep,        \* returned private representation sequence
    mask_perc,          \* returned masking percentage
    divisors,           \* the divisor of each division forward has executed
    \* ---- softmask_with_mask called on its own ----
    sm_inputs,          \* scores, in thousandths
    sm_masks,
    sm_zeros,
    sm_out,             \* the returned tensor
    \* ---- replace_nth_occurrence called on its own (data_book_hotel.py) ----
    rn_pc,              \* "call", "returned"
    rn_sentence,        \* strings are sequences of characters
    rn_target,
    rn_n,
    rn_result,
    \* ---- read_book_hotel (data_book_hotel.py) ----
    rb_pc,              \* "file" while the corpus file is written, then "done"
    rb_calls,           \* number of calls of read_book_hotel begun
    is_file,            \* os.path.isfile(in_file)
    in_file,            \* the corpus: a sequence of sentences with opinions
    source_count,       \* list of [word, count], '<pad>' first
    source_word2idx,    \* dict word -> index
    target_count,       \* list of [phrase, count]
    target_phrase2idx,  \* dict phrase -> index
    out_file,           \* the lines written to the side file
    source_data,
    source_loc_data,
    target_data,
    target_label,
    max_sent_len,
    max_target_len,
    count_implicit,
    count_confl,
    raised,             \* the exception that ended the call, if any
    \* ---- concatenate_tensors called on its own (bertmasker_lcr.py) ----
    ct_pc,              \* "call", "returned"
    representation,     \* [example][position] -> vector of width d
    descriptor,         \* the domain descriptor matrix, one row per domain
    domain_list,        \* [example] -> domain label
    att_masks,          \* [example][position] -> 0 or 1
    ct_out              \* the returned tensor

fwdVars == <<pc, masking, temp, P, segments_tensor, hidden_embeddings,
             input_embedding, input_e, private_rep2, private_rep, mask_perc,
             divisors>>

smVars == <<sm_inputs, sm_masks, sm_zeros, sm_out>>

rnVars == <<rn_pc, rn_sentence, rn_target, rn_n, rn_result>>

rbVars == <<rb_pc, rb_calls, is_file, in_file, source_count, source_word2idx, target_count,
           target_phrase2idx, out_file, source_data, source_loc_data,
           target_data, target_label, max_sent_len, max_target_len,
           count_implicit, count_confl, raised>>

ctVars == <<ct_pc, representation, descriptor, domain_list, att_masks, ct_out>>

vars == <<fwdVars, smVars, rnVars, rbVars, ctVars>>

-----------------------------------------------------------------------------
(* Bounds *)

\* MAX_LENGTH of config.py, the padded sequence length (a few hundred there).
MAX_LENGTH == 4

Pos == 0 .. (MAX_LENGTH - 1)

Bit == {0, 1}

-----------------------------------------------------------------------------
(* Exact rationals in lowest terms: [num |-> n, den |-> d] with d > 0. *)

Abs(n) == IF n < 0 THEN -n ELSE n

RECURSIVE GCD(_, _)
GCD(a, b) == IF b = 0 THEN a ELSE GCD(b, a % b)

Rat(n, d) ==
    LET g == GCD(Abs(n), Abs(d))
        s == IF d < 0 THEN -1 ELSE 1
    IN  [num |-> s * (n \div g), den |-> s * (d \div g)]

RAdd(x, y) == Rat(x.num * y.den + y.num * x.den, x.den * y.den)

RSub(x, y) == Rat(x.num * y.den - y.num * x.den, x.den * y.den)

RMul(x, y) == Rat(x.num * y.num, x.den * y.den)

REq(x, y) == x.num * y.den = y.num * x.den

\* x / y for y # 0
RDiv(x, y) == Rat(x.num * y.den, x.den * y.num)

RInt(k) == Rat(k, 1)

RLeq(x, y) == x.num * y.den <= y.num * x.den

RECURSIVE RPow(_, _)
RPow(x, k) == IF k = 0 THEN RInt(1) ELSE RMul(x, RPow(x, k - 1))

-----------------------------------------------------------------------------
(* torch.round: to the nearest integer, halves to the even one. *)

Floor(x) == x.num \div x.den

\* a variant that truncates downwards (torch.floor for torch.round)
RoundAsFloor(x) == Floor(x)

Round(x) ==
    LET f  == Floor(x)
        r2 == 2 * (x.num - f * x.den)
    IN  IF r2 < x.den THEN f
        ELSE IF r2 > x.den THEN f + 1
        ELSE IF f % 2 = 0 THEN f ELSE f + 1

-----------------------------------------------------------------------------
(* gumbel_softmax, one position: logits and samples are pairs over the     *)
(* two-way axis.  samples[c] stands for exp(g_c) of the Gumbel draw g_c,   *)
(* so that exp((log(logits[c]) + g_c) / tau) = (logits[c] * exp(g_c))^(1/tau). *)

\* values of pi = self.mlps(z): outputs of a sigmoid, strictly inside (0,1)
LogitVals == {Rat(1, 4), Rat(3, 4)}

\* values of exp(g) for the Gumbel noise g; any positive number can be drawn
GumbelExp == {Rat(1, 4), Rat(4, 1)}

\* values of 1/tau
InvTemps == {1, 2}

\* values of the masking offset; 1/10 is the default of SharedPart.__init__
MaskingVals == {Rat(1, 10), Rat(1, 2), Rat(3, 4)}

gumbel_softmax(logits, samples, invtau) ==
    LET w   == [c \in Bit |-> RPow(RMul(logits[c], samples[c]), invtau)]
        tot == RAdd(w[0], w[1])
    IN  [c \in Bit |-> RDiv(w[c], tot)]

\* P = Ph.detach() - Ps.detach() + Ps, the forward value
StraightThrough(Ph, Ps) ==
    LET v == RAdd(RSub(RInt(Ph), Ps), Ps)
    IN  v.num \div v.den

\* lines 221-223 for one position
GateEntry(logits, samples, invtau, m) ==
    LET p  == gumbel_softmax(logits, samples, invtau)
        Ps == [c \in Bit |-> RSub(p[c], m)]
        Ph == [c \in Bit |-> Round(Ps[c])]
    IN  [c \in Bit |-> StraightThrough(Ph[c], Ps[c])]

-----------------------------------------------------------------------------
(* Decimal fixed point with nine places: [w |-> units, n |-> 1e-9 units],  *)
(* tagged k = "fin",                                                       *)
(* 0 <= n < Giga, for the non-negative numbers of softmask_with_mask, and  *)
(* the two special values of the tensor's float type, inf and nan.         *)

Giga == 1000000000

Num(w, n) == [k |-> "fin", w |-> w, n |-> n]

NumZero == Num(0, 0)

NumOne == Num(1, 0)

\* the additive 1e-9 of softmask_with_mask
NumEps == Num(0, 1)

NumInf == [k |-> "inf", w |-> 0, n |-> 0]

NumNaN == [k |-> "nan", w |-> 0, n |-> 0]

IsFinite(x) == x.k = "fin"

\* x + y: nan + y = nan, inf + y = inf
NumAdd(x, y) ==
    IF NumNaN \in {x, y} THEN NumNaN
    ELSE IF NumInf \in {x, y} THEN NumInf
    ELSE IF x.n + y.n >= Giga THEN Num(x.w + y.w + 1, x.n + y.n - Giga)
    ELSE Num(x.w + y.w, x.n + y.n)

\* x - y for x >= y
NumSub(x, y) ==
    IF x.n >= y.n THEN Num(x.w - y.w, x.n - y.n)
    ELSE Num(x.w - y.w - 1, x.n + Giga - y.n)

NumLeq(x, y) == x.w < y.w \/ (x.w = y.w /\ x.n <= y.n)

\* x * b for b in {0, 1}: inf * 0 = nan
NumTimesBit(x, b) ==
    IF b = 1 THEN x ELSE IF IsFinite(x) THEN NumZero ELSE NumNaN

RECURSIVE NumSum(_, _)
\* the sum of x[0 .. k-1]
NumSum(x, k) == IF k = 0 THEN NumZero ELSE NumAdd(NumSum(x, k - 1), x[k - 1])

RECURSIVE IntSum(_, _)
IntSum(x, k) == IF k = 0 THEN 0 ELSE IntSum(x, k - 1) + x[k - 1]

\* torch.exp on scores given in thousandths, to nine places; exp(89) is
\* above the largest float32 and comes out as inf
Exp(score) ==
    CASE score = -20000 -> Num(0, 2)
      [] score = 0      -> Num(1, 0)
      [] score = 119    -> Num(1, 126369918)
      [] score = 269    -> Num(1, 308655141)
      [] score = 378    -> Num(1, 459362943)
      [] score = 500    -> Num(1, 648721271)
      [] score = 731    -> Num(2, 77156726)
      [] score = 881    -> Num(2, 413311812)
      [] score = 982    -> Num(2, 669790487)
      [] score = 1000   -> Num(2, 718281828)
      [] score = 89000  -> NumInf

\* nn.Sigmoid, in thousandths, on the arguments the model's rows produce
Sigmoid(x) ==
    CASE REq(x, Rat(-2, 1)) -> 119
      [] REq(x, Rat(-1, 1)) -> 269
      [] REq(x, Rat(-1, 2)) -> 378
      [] REq(x, Rat(0, 1))  -> 500
      [] REq(x, Rat(1, 1))  -> 731
      [] REq(x, Rat(2, 1))  -> 881
      [] REq(x, Rat(4, 1))  -> 982

\* A quotient coef * num / den of fixed-point numbers, kept exact.
FracZero == [coef |-> 0, num |-> NumZero, den |-> NumOne]

FracNaN == [coef |-> 1, num |-> NumNaN, den |-> NumOne]

\* x / d for d # 0: nan / d = x / nan = inf / inf = nan, x / inf = 0
NumDiv(x, d) ==
    IF NumNaN \in {x, d} \/ (x = NumInf /\ d = NumInf) THEN FracNaN
    ELSE IF x = NumZero \/ d = NumInf THEN FracZero
    ELSE [coef |-> 1, num |-> x, den |-> d]

\* k * f
FracTimesInt(k, f) ==
    IF f = FracNaN THEN FracNaN
    ELSE IF k = 0 \/ f = FracZero THEN FracZero
    ELSE [f EXCEPT !.coef = k * @]

-----------------------------------------------------------------------------
(* softmask_with_mask, one row *)

\* a variant that leaves out the factor (1 - zeros)
softmask_inputs_with_structural(inputs, masks, zeros) ==
    [i \in Pos |-> NumTimesBit(Exp(inputs[i]), masks[i])]

\* inputs * masks.unsqueeze(-1) * (1 - zeros).unsqueeze(-1), after torch.exp
softmask_inputs(inputs, masks, zeros) ==
    [i \in Pos |-> NumTimesBit(Exp(inputs[i]), masks[i] * (1 - zeros[i]))]

\* sum_inputs = torch.sum(inputs, dim=1, keepdim=True) + 1e-9
softmask_sum(inputs, masks, zeros) ==
    NumAdd(NumSum(softmask_inputs(inputs, masks, zeros), MAX_LENGTH), NumEps)

softmask_with_mask(inputs, masks, zeros) ==
    LET x == softmask_inputs(inputs, masks, zeros)
        s == softmask_sum(inputs, masks, zeros)
    IN  [i \in Pos |-> NumDiv(x[i], s)]

-----------------------------------------------------------------------------
(* SharedPart.forward, one row, after the gate (lines 225-270).  The calls *)
(* of self.bert, self.grl, self.dcs and self.dcp only produce y_pred,      *)
(* summed_hs and y_pred2 from networks outside this file and change        *)
(* nothing the rest of forward reads.                                      *)

\* number of real tokens of a row; the real-token mask is a prefix of ones
RealLens == 2 .. MAX_LENGTH

PrefixMask(len) == [i \in Pos |-> IF i < len THEN 1 ELSE 0]

\* values of the hidden states H
HiddenVals == {-1, 2}

\* the rows of input_embedding
InputRows == {[i \in Pos |-> i + 1], [i \in Pos |-> 7]}

\* the [MASK] input embedding
MaskEmbeddings == {9}

\* line 231 indexes P[.., 0]; the model's P is 1-based over positions
Gate0(gate, i) == gate[i + 1][0]

\* lines 226-228: 1 at position 0 and at position sum(segments_tensor) - 1
StructuralMask(seg) ==
    LET s == IntSum(seg, MAX_LENGTH) - 1
    IN  [i \in Pos |-> IF i = s \/ i = 0 THEN 1 ELSE 0]

\* a variant that leaves out line 233, the restoring of [CLS] and [SEP]
EmbeddedInputsUnrestored(gate, inp, mask_embedding, zeros) ==
    [i \in Pos |-> (1 - Gate0(gate, i)) * inp[i] + Gate0(gate, i) * mask_embedding]

\* lines 231-233
EmbeddedInputs(gate, inp, mask_embedding, zeros) ==
    LET mixed == [i \in Pos |->
                    (1 - Gate0(gate, i)) * inp[i] + Gate0(gate, i) * mask_embedding]
    IN  [i \in Pos |-> mixed[i] * (1 - zeros[i]) + inp[i] * zeros[i]]

\* P[.., 0] * segments_tensor * (1 - zeros)
GatedIn(gate, seg, zeros) ==
    [i \in Pos |-> Gate0(gate, i) * seg[i] * (1 - zeros[i])]

\* line 253: sum
GateSum(gate, seg, zeros) == IntSum(GatedIn(gate, seg, zeros), MAX_LENGTH)

\* a variant that leaves out the substitution of 1 for a zero sum
PoolDivisorUnguarded(gate, seg, zeros) == GateSum(gate, seg, zeros)

\* line 255: sum + condition.float()
PoolDivisor(gate, seg, zeros) ==
    LET sum == GateSum(gate, seg, zeros)
    IN  sum + (IF sum = 0 THEN 1 ELSE 0)

\* n / d as torch divides: 0/0 is nan, x/0 is inf, no error is raised
Quotient(n, d) ==
    IF d = 0 THEN [kind |-> IF n = 0 THEN "nan" ELSE "inf", num |-> n, den |-> d]
    ELSE [kind |-> "num", num |-> Rat(n, d).num, den |-> Rat(n, d).den]

\* lines 252-255
PrivateRep2(gate, H, seg, zeros) ==
    LET embedded == [i \in Pos |-> Gate0(gate, i) * H[i]]
        numer    == IntSum([i \in Pos |-> embedded[i] * seg[i] * (1 - zeros[i])],
                           MAX_LENGTH)
    IN  Quotient(numer, PoolDivisor(gate, seg, zeros))

\* lines 258-260: the scores handed to softmask_with_mask
AttentionScores(pr2, H, seg, zeros) ==
    [i \in Pos |-> Sigmoid(RMul(RInt(H[i] * seg[i] * (1 - zeros[i])), pr2))]

\* line 260; a nan pooled vector stays nan through the product, the sigmoid,
\* the exponential, the sum and the quotient
Attention(pr2, H, seg, zeros) ==
    IF pr2.kind = "num"
    THEN softmask_with_mask(AttentionScores(pr2, H, seg, zeros), seg, zeros)
    ELSE [i \in Pos |-> FracNaN]

\* the divisor of line 71 in the call of line 260
AttentionDivisor(pr2, H, seg, zeros) ==
    IF pr2.kind = "num"
    THEN softmask_sum(AttentionScores(pr2, H, seg, zeros), seg, zeros)
    ELSE NumNaN

\* a variant that also multiplies by the gate value of the position
PrivateRepGatedIn(a, H, seg, zeros) ==
    [i \in Pos |->
        FracTimesInt(Gate0(P, i) * H[i] * seg[i] * (1 - zeros[i]), a[i])]

\* line 263
PrivateRep(a, H, seg, zeros) ==
    [i \in Pos |-> FracTimesInt(H[i] * seg[i] * (1 - zeros[i]), a[i])]

\* line 268: the divisor
RealInner(seg, zeros) == IntSum([i \in Pos |-> seg[i] * (1 - zeros[i])], MAX_LENGTH)

\* line 268
MaskPerc(gate, seg, zeros) ==
    Quotient(GateSum(gate, seg, zeros), RealInner(seg, zeros))

-----------------------------------------------------------------------------
(* The forward pass as a state machine *)

Unset == <<>>

FwdIdle ==
    /\ pc = "idle"
    /\ masking = Unset
    /\ temp = Unset
    /\ P = <<>>
    /\ segments_tensor = Unset
    /\ hidden_embeddings = Unset
    /\ input_embedding = Unset
    /\ input_e = Unset
    /\ private_rep2 = Unset
    /\ private_rep = Unset
    /\ mask_perc = Unset
    /\ divisors = Unset

SmIdle ==
    /\ sm_inputs = Unset
    /\ sm_masks = Unset
    /\ sm_zeros = Unset
    /\ sm_out = Unset

RnIdle ==
    /\ rn_pc = "idle"
    /\ rn_sentence = Unset
    /\ rn_target = Unset
    /\ rn_n = 0
    /\ rn_result = Unset

\* no exception
NoneRaised == [type |-> "none", line |-> 0]

RbIdle ==
    /\ rb_pc = "idle"
    /\ rb_calls = 0
    /\ is_file = FALSE
    /\ in_file = Unset
    /\ source_count = Unset
    /\ source_word2idx = Unset
    /\ target_count = Unset
    /\ target_phrase2idx = Unset
    /\ out_file = Unset
    /\ source_data = Unset
    /\ source_loc_data = Unset
    /\ target_data = Unset
    /\ target_label = Unset
    /\ max_sent_len = 0
    /\ max_target_len = 0
    /\ count_implicit = 0
    /\ count_confl = 0
    /\ raised = NoneRaised

CtIdle ==
    /\ ct_pc = "idle"
    /\ representation = Unset
    /\ descriptor = Unset
    /\ domain_list = Unset
    /\ att_masks = Unset
    /\ ct_out = Unset

FwdInit ==
    /\ pc = "gate"
    /\ masking \in MaskingVals
    /\ temp \in InvTemps
    /\ P = <<>>
    /\ segments_tensor = Unset
    /\ hidden_embeddings = Unset
    /\ input_embedding = Unset
    /\ input_e = Unset
    /\ private_rep2 = Unset
    /\ private_rep = Unset
    /\ mask_perc = Unset
    /\ divisors = Unset
    /\ SmIdle
    /\ RnIdle
    /\ RbIdle
    /\ CtIdle

\* lines 218-223, position Len(P): pi from the gate network, noise from torch.rand
GumbelGate ==
    /\ pc = "gate"
    /\ Len(P) < MAX_LENGTH
    /\ \E logits \in [Bit -> LogitVals], samples \in [Bit -> GumbelExp] :
          P' = Append(P, GateEntry(logits, samples, temp, masking))
    /\ UNCHANGED <<pc, masking, temp, segments_tensor, hidden_embeddings,
                   input_embedding, input_e, private_rep2, private_rep,
                   mask_perc, divisors>>
    /\ UNCHANGED <<smVars, rnVars, rbVars, ctVars>>

\* lines 225-270 on the row's inputs
Forward ==
    /\ pc = "gate"
    /\ Len(P) = MAX_LENGTH
    /\ \E len \in RealLens, H \in [Pos -> HiddenVals], inp \in InputRows,
          mask_embedding \in MaskEmbeddings :
          LET seg   == PrefixMask(len)
              zeros == StructuralMask(seg)
              pr2   == PrivateRep2(P, H, seg, zeros)
              a     == Attention(pr2, H, seg, zeros)
          IN  /\ segments_tensor' = seg
              /\ hidden_embeddings' = H
              /\ input_embedding' = inp
              /\ input_e' = EmbeddedInputs(P, inp, mask_embedding, zeros)
              /\ private_rep2' = pr2
              /\ private_rep' = PrivateRep(a, H, seg, zeros)
              /\ mask_perc' = MaskPerc(P, seg, zeros)
              /\ divisors' = [pool     |-> PoolDivisor(P, seg, zeros),
                              softmask |-> AttentionDivisor(pr2, H, seg, zeros),
                              perc     |-> RealInner(seg, zeros)]
    /\ pc' = "done"
    /\ UNCHANGED <<masking, temp, P>>
    /\ UNCHANGED <<smVars, rnVars, rbVars, ctVars>>

FwdNext == GumbelGate \/ Forward

Spec == FwdInit /\ [][FwdNext]_vars

-----------------------------------------------------------------------------
(* Properties of SharedPart.forward *)

Done == pc = "done"

\* the structural positions of the row: 0 and sum(segments_tensor) - 1
IsStructural(i) == i = 0 \/ i = IntSum(segments_tensor, MAX_LENGTH) - 1

\* real and not structural
IsInner(i) == segments_tensor[i] = 1 /\ ~IsStructural(i)

GateEntries == {P[i][c] : i \in 1 .. Len(P), c \in Bit}

BinaryOffset == RLeq(masking, Rat(1, 2))

\* C1 as claimed: for every masking offset in (0,1) each entry of the gate
\* tensor P has forward value exactly 0 or exactly 1.
C1_GateRange == GateEntries \subseteq {0, 1}

\* C1 amended: for every masking offset m in (0, 1/2] each entry of the gate
\* tensor P has forward value exactly 0 or exactly 1; for m above 1/2 an entry
\* is 0 or -1, never 1.
C1_GateRangeUpToHalf ==
    /\ BinaryOffset => GateEntries \subseteq {0, 1}
    /\ ~BinaryOffset => GateEntries \subseteq {-1, 0}

C1_Witness ==
    /\ Len(P) = MAX_LENGTH
    /\ BinaryOffset
    /\ \E i \in 1 .. Len(P) : P[i][0] = 1 /\ P[i][1] = 0
    /\ \E i \in 1 .. Len(P) : P[i][0] = 0 /\ P[i][1] = 0

\* C2: for every row whose real-token mask sums to at least 2, mask_perc is
\* a defined number with 0 <= mask_perc <= 1 (checked where the gate is
\* binary, i.e. for offsets up to 1/2, the default 1/10 among them).
C2_MaskPercBounds ==
    (Done /\ BinaryOffset /\ IntSum(segments_tensor, MAX_LENGTH) >= 2) =>
        /\ mask_perc.kind = "num"
        /\ 0 <= mask_perc.num
        /\ mask_perc.num <= mask_perc.den

\* C3: for every row whose real-token mask sums to at least 2 (exactly 2
\* included), no division of forward has a zero divisor.
C3_NoZeroDivisor ==
    (Done /\ IntSum(segments_tensor, MAX_LENGTH) >= 2) =>
        /\ divisors.pool # 0
        /\ divisors.softmask # NumZero
        /\ divisors.perc # 0

\* C4: input_e equals input_embedding at position 0 and at position
\* sum(segments_tensor) - 1, whatever the gate is there.
C4_StructuralExclusion ==
    Done => \A i \in Pos : IsStructural(i) => input_e[i] = input_embedding[i]

C4_Witness ==
    /\ Done
    /\ \A i \in Pos : IsStructural(i) => Gate0(P, i) = 1
    /\ \E i \in Pos : ~IsStructural(i) /\ input_e[i] # input_embedding[i]

\* the attention weights a of line 260, from the returned pooled vector
AttentionOfRow ==
    Attention(private_rep2, hidden_embeddings, segments_tensor,
              StructuralMask(segments_tensor))

\* C5 as claimed: private_rep is H * attention_weight at the positions that
\* are real, non-structural and gated-in, and zero at every position that is
\* padding, structural or has gate value 0.
C5_PrivateRestrictedToGated ==
    Done => \A i \in Pos :
        IF IsInner(i) /\ Gate0(P, i) = 1
        THEN private_rep[i] = FracTimesInt(hidden_embeddings[i], AttentionOfRow[i])
        ELSE private_rep[i] = FracZero

\* C5 amended: private_rep is H * attention_weight at every real,
\* non-structural position whatever its gate value (the weight is positive
\* there), and zero at every padding or structural position.
C5_PrivateRestrictedToInner ==
    Done => \A i \in Pos :
        IF IsInner(i)
        THEN /\ private_rep[i] = FracTimesInt(hidden_embeddings[i], AttentionOfRow[i])
             /\ AttentionOfRow[i] # FracZero
        ELSE private_rep[i] = FracZero

C5_Witness ==
    /\ Done
    /\ \E i \in Pos : IsInner(i) /\ Gate0(P, i) = 0 /\ private_rep[i] # FracZero
    /\ \E i \in Pos : IsInner(i) /\ Gate0(P, i) = 1 /\ private_rep[i] # FracZero

PooledZero == [kind |-> "num", num |-> 0, den |-> 1]

\* C6 as claimed: when no real, non-structural position has gate value 1,
\* private_rep2 is all-zero.
C6_DegeneratePooling ==
    (Done /\ \A i \in Pos : IsInner(i) => Gate0(P, i) # 1) =>
        private_rep2 = PooledZero

\* C6 amended: when every real, non-structural position has gate value 0
\* (none has gate value 1 or -1), the divisor is replaced by 1 and
\* private_rep2 is all-zero, a defined number.
C6_DegeneratePoolingAllZeroGate ==
    (Done /\ \A i \in Pos : IsInner(i) => Gate0(P, i) = 0) =>
        /\ private_rep2 = PooledZero
        /\ divisors.pool = 1

C6_Witness ==
    /\ Done
    /\ \E i \in Pos : IsInner(i)
    /\ \A i \in Pos : IsInner(i) => Gate0(P, i) = 0
    /\ \E i \in Pos : IsStructural(i) /\ Gate0(P, i) = 1
    /\ private_rep2 = PooledZero

-----------------------------------------------------------------------------
(* softmask_with_mask on arbitrary scores and masks *)

\* scores in thousandths: -20, 1 and 89
ScoreVals == {-20000, 1000, 89000}

SmInit ==
    /\ sm_inputs \in [Pos -> ScoreVals]
    /\ sm_masks \in [Pos -> Bit]
    /\ sm_zeros \in [Pos -> Bit]
    /\ sm_out = Unset
    /\ FwdIdle
    /\ RnIdle
    /\ RbIdle
    /\ CtIdle

Softmask ==
    /\ sm_out = Unset
    /\ sm_out' = softmask_with_mask(sm_inputs, sm_masks, sm_zeros)
    /\ UNCHANGED <<sm_inputs, sm_masks, sm_zeros>>
    /\ UNCHANGED <<fwdVars, rnVars, rbVars, ctVars>>

SmNext == Softmask

SpecSoftmask == SmInit /\ [][SmNext]_vars

SmDone == sm_out # Unset

\* real and not structural
SmInner(i) == sm_masks[i] = 1 /\ sm_zeros[i] = 0

\* S, the sum of exp(score) over the real, non-structural positions
SmS == NumSum([i \in Pos |-> IF SmInner(i) THEN Exp(sm_inputs[i]) ELSE NumZero],
              MAX_LENGTH)

SmFinite == \A i \in Pos : IsFinite(Exp(sm_inputs[i]))

\* the numerators of the outputs over the real, non-structural positions,
\* which share the divisor S + 1e-9
SmOutSum == NumSum([i \in Pos |-> IF SmInner(i) /\ sm_out[i].coef = 1
                                  THEN sm_out[i].num ELSE NumZero], MAX_LENGTH)

\* 10 * x
NumTimes10(x) == Num(10 * x.w + x.n \div 100000000, 10 * (x.n % 100000000))

RECURSIVE NumTimesPow10(_, _)
NumTimesPow10(x, k) == IF k = 0 THEN x ELSE NumTimesPow10(NumTimes10(x), k - 1)

\* num/den is within 10^-k of 1 from below: 10^k * (den - num) <= den
WithinOfOne(num, den, k) ==
    /\ NumLeq(num, den)
    /\ NumLeq(NumTimesPow10(NumSub(den, num), k), den)

SmZeroOutside == \A i \in Pos : ~SmInner(i) => sm_out[i] = FracZero

\* the outputs over the real, non-structural positions sum to S / (S + 1e-9),
\* which is below 1
SmSumExact ==
    /\ SmOutSum = SmS
    /\ \A i \in Pos : SmInner(i) => sm_out[i].den = NumAdd(SmS, NumEps)
    /\ NumLeq(SmOutSum, NumAdd(SmS, NumEps)) /\ SmOutSum # NumAdd(SmS, NumEps)

-----------------------------------------------------------------------------
(* Strings of data_book_hotel.py: sequences of one-character strings,      *)
(* 1-based; offsets into them are 0-based as in Python.                    *)

\* longest sentence text
MaxSentenceLen == 5

\* the characters re counts as \w among those the model uses
WordChars == {"a", "b", "c", "A", "T", "N", "U", "L"}

\* str.lower
Lower(c) == IF c = "A" THEN "a" ELSE c

LowerStr(s) == [i \in 1 .. Len(s) |-> Lower(s[i])]

\* s[i:j]
Slice(s, i, j) == SubSeq(s, i + 1, j)

\* s[start:start+len(sub)] == sub
OccursAt(s, sub, start) ==
    /\ start + Len(sub) <= Len(s)
    /\ Slice(s, start, start + Len(sub)) = sub

\* \b at offset i: exactly one of the characters around it is a word character
WordBoundary(s, i) ==
    (i >= 1 /\ s[i] \in WordChars) # (i < Len(s) /\ s[i + 1] \in WordChars)

\* the pattern \b + re.escape(target) + \b matches at offset i
PatternAt(s, target, i) ==
    /\ OccursAt(s, target, i)
    /\ WordBoundary(s, i)
    /\ WordBoundary(s, i + Len(target))

RECURSIVE FindIter(_, _, _)
\* list(re.finditer(pattern, sentence)) from offset pos on: the starts of the
\* matches, each search resuming at the end of the match before
FindIter(s, target, pos) ==
    IF pos + Len(target) > Len(s) THEN <<>>
    ELSE IF PatternAt(s, target, pos)
         THEN <<pos>> \o FindIter(s, target, pos + Len(target))
         ELSE FindIter(s, target, pos + 1)

RECURSIVE Find(_, _, _)
\* str.find(sub, start): the lowest offset >= start where sub occurs, or -1
Find(s, sub, start) ==
    IF start + Len(sub) > Len(s) THEN -1
    ELSE IF OccursAt(s, sub, start) THEN start
    ELSE Find(s, sub, start + 1)

\* sentence[:start] + replacement + sentence[end:]
Splice(sentence, start, end, replacement) ==
    Slice(sentence, 0, start) \o replacement \o Slice(sentence, end, Len(sentence))

RECURSIVE NthFind(_, _, _, _, _)
\* the while loop of replace_nth_occurrence2 (lines 71-81), entered with
\* occurrence_count < n: the offset it breaks at, or -1 where it returns
NthFind(sentence2, old_phrase, start, occurrence_count, n) ==
    LET found == Find(sentence2, old_phrase, start)
    IN  IF found = -1 THEN -1
        ELSE IF occurrence_count + 1 = n THEN found
        ELSE NthFind(sentence2, old_phrase, found + Len(old_phrase),
                     occurrence_count + 1, n)

\* lines 65-87, for n >= 1
replace_nth_occurrence2(sentence, old_phrase, new_phrase, n) ==
    LET start == NthFind(LowerStr(sentence), old_phrase, 0, 0, n)
    IN  IF start = -1 THEN sentence
        ELSE Splice(sentence, start, start + Len(old_phrase), new_phrase)

\* lines 40-63, for n >= 1
replace_nth_occurrence(sentence, target, replacement, n) ==
    LET matches == FindIter(sentence, target, 0)
    IN  IF Len(matches) < n
        THEN replace_nth_occurrence2(sentence, target, replacement, n)
        ELSE Splice(sentence, matches[n], matches[n] + Len(target), replacement)

-----------------------------------------------------------------------------
(* replace_nth_occurrence on arbitrary sentences and targets *)

SentenceChars == {"a", "A", "b", " ", "-"}

TargetChars == {"a", "b", " ", "-"}

Strings(chars, lens) == UNION {[1 .. k -> chars] : k \in lens}

Sentences == Strings(SentenceChars, 0 .. MaxSentenceLen)

\* target phrases: one to three characters, no space at either end, at least
\* one letter
Targets ==
    {t \in Strings(TargetChars, 1 .. 3) :
        /\ t[1] # " " /\ t[Len(t)] # " "
        /\ \E i \in 1 .. Len(t) : t[i] \in WordChars}

\* values of the occurrence attribute
Occurrences == {1, 2}

\* the placeholder $T$
Placeholder == <<"$", "T", "$">>

RnInit ==
    /\ rn_pc = "call"
    /\ rn_sentence \in Sentences
    /\ rn_target \in Targets
    /\ rn_n \in Occurrences
    /\ rn_result = Unset
    /\ FwdIdle
    /\ SmIdle
    /\ RbIdle
    /\ CtIdle

ReplaceNth ==
    /\ rn_pc = "call"
    /\ rn_result' = replace_nth_occurrence(rn_sentence, rn_target, Placeholder, rn_n)
    /\ rn_pc' = "returned"
    /\ UNCHANGED <<rn_sentence, rn_target, rn_n>>
    /\ UNCHANGED <<fwdVars, smVars, rbVars, ctVars>>

RnNext == ReplaceNth

SpecReplace == RnInit /\ [][RnNext]_vars

\* the target stands at offset i as a whole word: no word character touches it
WholeWordAt(s, target, i) ==
    /\ OccursAt(s, target, i)
    /\ i = 0 \/ s[i] \notin WordChars
    /\ i + Len(target) = Len(s) \/ s[i + Len(target) + 1] \notin WordChars

WholeWordOccurrences(s, target) == {i \in 0 .. Len(s) : WholeWordAt(s, target, i)}

\* the n-th smallest element of a set of numbers
NthOf(S, n) == CHOOSE i \in S : Cardinality({j \in S : j < i}) = n - 1

\* no two occurrences share a character
Disjoint(S, len) == \A i, j \in S : i < j => i + len <= j

RnOcc == WholeWordOccurrences(rn_sentence, rn_target)

RnNthReplaced ==
    rn_result = Splice(rn_sentence, NthOf(RnOcc, rn_n),
                       NthOf(RnOcc, rn_n) + Len(rn_target), Placeholder)

\* C8 as claimed: when the target occurs at least n times as a whole word,
\* the result is the sentence with exactly the n-th whole-word occurrence
\* (left to right) replaced and every other character unchanged.
C8_NthOccurrenceReplaced ==
    (rn_pc = "returned" /\ Cardinality(RnOcc) >= rn_n) => RnNthReplaced

\* the target begins and ends with a word character
WordEnded(target) == target[1] \in WordChars /\ target[Len(target)] \in WordChars

\* Where the code does what C8 says: when the target begins and ends with a
\* word character, occurs at least n times as a whole word, and its
\* whole-word occurrences do not overlap one another (always so for a
\* single-word target), the result is the sentence with exactly the n-th
\* whole-word occurrence replaced and every other character unchanged.
C8_NthDisjointOccurrenceReplaced ==
    (/\ rn_pc = "returned"
     /\ WordEnded(rn_target)
     /\ Cardinality(RnOcc) >= rn_n
     /\ Disjoint(RnOcc, Len(rn_target))) => RnNthReplaced

\* the second of two whole-word occurrences of a one-letter target is replaced
C8_Witness ==
    /\ rn_pc = "returned"
    /\ rn_n = 2
    /\ WordEnded(rn_target)
    /\ Cardinality(RnOcc) = 2
    /\ Disjoint(RnOcc, Len(rn_target))
    /\ Len(rn_target) = 1
    /\ Len(rn_sentence) = 5
    /\ rn_result = Splice(rn_sentence, 4, 5, Placeholder)

-----------------------------------------------------------------------------
(* read_book_hotel: the corpus file, tokenisation, _get_data_tuple *)

\* most <sentence> elements in the corpus file
MaxSentences == 1

\* most <Opinion> elements in the corpus file
MaxOpinions == 3

Str_NULL == <<"N", "U", "L", "L">>

Str_pad == <<"<", "p", "a", "d", ">">>

\* the target attribute of an <Opinion>: a text, or not given (None)
TargetOf(text) == [given |-> TRUE, text |-> text]

NoTarget == [given |-> FALSE, text |-> <<>>]

Opinion(target, polarity, occurrence) ==
    [target |-> target, polarity |-> polarity, occurrence |-> occurrence]

\* the <text> of a sentence
Texts == {<<"A", " ", "b", " ", "a">>, <<"a", "b">>, <<" ">>}

\* the <Opinion> elements a sentence may carry
Opinions ==
    { Opinion(TargetOf(<<"a">>), "positive", 1),
      Opinion(TargetOf(<<"a">>), "negative", 2),
      Opinion(TargetOf(<<"c">>), "neutral", 1),
      Opinion(TargetOf(<<"b", " ", "a">>), "neutral", 1),
      Opinion(TargetOf(<<"a">>), "conflict", 1),
      Opinion(TargetOf(Str_NULL), "conflict", 1),
      Opinion(TargetOf(Str_NULL), "positive", 1),
      Opinion(NoTarget, "negative", 1),
      Opinion(TargetOf(<<"a">>), "mixed", 1),
      Opinion(TargetOf(<<"c">>), "mixed", 1) }

RECURSIVE CollapseSpaces(_)
\* re.sub(' +', ' ', s)
CollapseSpaces(s) ==
    IF Len(s) < 2 THEN s
    ELSE IF s[1] = " " /\ s[2] = " " THEN CollapseSpaces(Tail(s))
    ELSE <<s[1]>> \o CollapseSpaces(Tail(s))

RECURSIVE Split(_, _, _)
Split(s, i, word) ==
    IF i > Len(s) THEN (IF word = <<>> THEN <<>> ELSE <<word>>)
    ELSE IF s[i] = " "
         THEN (IF word = <<>> THEN <<>> ELSE <<word>>) \o Split(s, i + 1, <<>>)
         ELSE Split(s, i + 1, Append(word, s[i]))

\* nltk.word_tokenize on a text of letters and spaces: its words
word_tokenize(s) == Split(s, 1, <<>>)

RECURSIVE Join(_)
\* ' '.join(toks)
Join(toks) ==
    IF Len(toks) = 0 THEN <<>>
    ELSE IF Len(toks) = 1 THEN toks[1]
    ELSE toks[1] \o <<" ">> \o Join(Tail(toks))

\* [tok.lower() for tok in toks]
LowerAll(toks) == [i \in 1 .. Len(toks) |-> LowerStr(toks[i])]

\* sub in s
Contains(s, sub) == Find(s, sub, 0) # -1

RECURSIVE AspectStart(_, _, _)
\* the loop of lines 101-107 from window _i on: the first window that equals
\* or contains the aspect term, or -1
AspectStart(sptoks, asp_term_in, _i) ==
    IF _i + Len(asp_term_in) > Len(sptoks) THEN -1
    ELSE IF Contains(LowerStr(Join(SubSeq(sptoks, _i + 1, _i + Len(asp_term_in)))),
                     LowerStr(Join(asp_term_in)))
         THEN _i
         ELSE AspectStart(sptoks, asp_term_in, _i + 1)

\* min([abs(_i - i) for i in aspect_is]) for aspect_is = start .. start+size-1
MinDistance(_i, start, size) ==
    IF _i < start THEN start - _i
    ELSE IF _i > start + size - 1 THEN _i - (start + size - 1)
    ELSE 0

Raised(type, line) == [type |-> type, line |-> line]

\* _get_data_tuple with the labels 0, 1, 2 of the comment at line 142
_get_data_tuple_labels012(sptoks, asp_term_in, label) ==
    LET start == AspectStart(sptoks, asp_term_in, 0)
        lab == IF label = "negative" THEN 0 ELSE IF label = "neutral" THEN 1 ELSE 2
    IN  IF Len(asp_term_in) > Len(sptoks)
        THEN [raised |-> Raised("RuntimeError", 101), pos_info |-> <<>>, lab |-> 0]
        ELSE IF start = -1 /\ Len(sptoks) > 0
        THEN [raised |-> Raised("ValueError", 111), pos_info |-> <<>>, lab |-> 0]
        ELSE IF label \notin {"negative", "neutral", "positive"}
        THEN [raised |-> Raised("ValueError", 121), pos_info |-> <<>>, lab |-> 0]
        ELSE [raised |-> NoneRaised,
              pos_info |-> [k \in 1 .. Len(sptoks) |->
                               MinDistance(k - 1, start, Len(asp_term_in))],
              lab |-> lab]

\* lines 89-123: window() cannot fill its first window when the aspect has
\* more tokens than the sentence (the StopIteration inside the generator
\* becomes a RuntimeError); min() of an empty aspect_is is a ValueError;
\* then the label is mapped
_get_data_tuple(sptoks, asp_term_in, label) ==
    LET start == AspectStart(sptoks, asp_term_in, 0)
        lab == IF label = "negative" THEN -1 ELSE IF label = "neutral" THEN 0 ELSE 1
    IN  IF Len(asp_term_in) > Len(sptoks)
        THEN [raised |-> Raised("RuntimeError", 101), pos_info |-> <<>>, lab |-> 0]
        ELSE IF start = -1 /\ Len(sptoks) > 0
        THEN [raised |-> Raised("ValueError", 111), pos_info |-> <<>>, lab |-> 0]
        ELSE IF label \notin {"negative", "neutral", "positive"}
        THEN [raised |-> Raised("ValueError", 121), pos_info |-> <<>>, lab |-> 0]
        ELSE [raised |-> NoneRaised,
              pos_info |-> [k \in 1 .. Len(sptoks) |->
                               MinDistance(k - 1, start, Len(asp_term_in))],
              lab |-> lab]

-----------------------------------------------------------------------------
(* read_book_hotel, first pass (lines 157-186) and vocabulary (187-198) *)

Max(a, b) == IF a >= b THEN a ELSE b

\* asp != 'NULL' and asp is not None
IsExplicit(asp) == asp.given /\ asp.text # Str_NULL

Pass1Start ==
    [source_words |-> <<>>, target_words |-> <<>>, target_phrases |-> <<>>,
     max_sent_len |-> 0, max_target_len |-> 0,
     count_implicit |-> 0, count_confl |-> 0]

\* lines 179-186: the target of an opinion that is not skipped
Pass1Target(acc, opinion) ==
    LET asp == opinion.target
        t_sptoks == word_tokenize(CollapseSpaces(asp.text))
    IN  IF IsExplicit(asp)
        THEN [acc EXCEPT !.target_words = @ \o LowerAll(t_sptoks),
                         !.target_phrases = Append(@, LowerStr(Join(t_sptoks))),
                         !.max_target_len = Max(@, Len(t_sptoks))]
        ELSE [acc EXCEPT !.count_implicit = @ + 1]

\* lines 173-186 without the continue of line 175
Pass1OpinionNoContinue(acc, opinion) ==
    IF opinion.polarity = "conflict"
    THEN Pass1Target([acc EXCEPT !.count_confl = @ + 1], opinion)
    ELSE Pass1Target(acc, opinion)

\* lines 173-186: one <Opinion> in the first pass
Pass1Opinion(acc, opinion) ==
    IF opinion.polarity = "conflict"
    THEN [acc EXCEPT !.count_confl = @ + 1]
    ELSE Pass1Target(acc, opinion)

RECURSIVE Pass1Opinions(_, _)
Pass1Opinions(acc, opinions) ==
    IF Len(opinions) = 0 THEN acc
    ELSE Pass1Opinions(Pass1Opinion(acc, Head(opinions)), Tail(opinions))

\* lines 164-186: one <sentence> in the first pass
Pass1Sentence(acc, sentence) ==
    LET sptoks == word_tokenize(CollapseSpaces(sentence.text))
    IN  Pass1Opinions([acc EXCEPT !.source_words = @ \o LowerAll(sptoks),
                                  !.max_sent_len = Max(@, Len(sptoks))],
                      sentence.opinions)

RECURSIVE Pass1(_, _)
Pass1(acc, sentences) ==
    IF Len(sentences) = 0 THEN acc
    ELSE Pass1(Pass1Sentence(acc, Head(sentences)), Tail(sentences))

CountOf(words, w) == Cardinality({i \in 1 .. Len(words) : words[i] = w})

RECURSIVE Distinct(_, _)
\* the keys of Counter(words), in order of first appearance
Distinct(words, seen) ==
    IF Len(words) = 0 THEN <<>>
    ELSE IF Head(words) \in seen THEN Distinct(Tail(words), seen)
    ELSE <<Head(words)>> \o Distinct(Tail(words), seen \cup {Head(words)})

RECURSIVE SortByCount(_, _)
\* a stable sort of the keys by falling count
SortByCount(keys, words) ==
    IF Len(keys) = 0 THEN <<>>
    ELSE LET best == CHOOSE i \in 1 .. Len(keys) :
                        /\ \A j \in 1 .. Len(keys) :
                              CountOf(words, keys[j]) <= CountOf(words, keys[i])
                        /\ \A j \in 1 .. (i - 1) :
                              CountOf(words, keys[j]) < CountOf(words, keys[i])
         IN  <<[word |-> keys[best], count |-> CountOf(words, keys[best])]>>
             \o SortByCount(SubSeq(keys, 1, best - 1)
                            \o SubSeq(keys, best + 1, Len(keys)), words)

\* Counter(words).most_common()
most_common(words) == SortByCount(Distinct(words, {}), words)

\* lines 187-189
ExtendSourceCount(count, words) ==
    (IF Len(count) = 0 THEN <<[word |-> Str_pad, count |-> 0]>> ELSE count)
    \o most_common(words)

RECURSIVE IndexFrom(_, _, _)
IndexFrom(word2idx, count, i) ==
    IF Len(count) = 0 THEN word2idx
    ELSE IF Head(count).word \in DOMAIN word2idx
         THEN IndexFrom(word2idx, Tail(count), i + 1)
         ELSE IndexFrom(word2idx @@ (Head(count).word :> i), Tail(count), i + 1)

\* every word of the list not yet in the dict gets its place in the list
IndexAllByPosition(word2idx, count) == IndexFrom(word2idx, count, 0)

RECURSIVE IndexAll(_, _)
\* lines 192-198: every word of the list not yet in the dict gets index len(dict)
IndexAll(word2idx, count) ==
    IF Len(count) = 0 THEN word2idx
    ELSE IF Head(count).word \in DOMAIN word2idx
         THEN IndexAll(word2idx, Tail(count))
         ELSE IndexAll(word2idx @@ (Head(count).word :> Cardinality(DOMAIN word2idx)),
                       Tail(count))

-----------------------------------------------------------------------------
(* read_book_hotel, second pass (lines 200-236), final report (238-245) *)

\* str(lab)
StrOfLab(lab) ==
    IF lab = -1 THEN <<"-", "1">> ELSE IF lab = 0 THEN <<"0">> ELSE <<"1">>

Pass2Start ==
    [source_data |-> <<>>, source_loc_data |-> <<>>, target_data |-> <<>>,
     target_label |-> <<>>, out_file |-> <<>>, raised |-> NoneRaised]

\* lines 213-236: one <Opinion> of a sentence with tokens sptoks and indices
\* idx; an exception leaves what was appended and written before it
Pass2Opinion(acc, sent, sptoks, idx, opinion, phrase2idx) ==
    LET asp == opinion.target
        t_sptoks == word_tokenize(CollapseSpaces(asp.text))
        outputtext == replace_nth_occurrence(LowerStr(sent), LowerStr(asp.text),
                                             Placeholder, opinion.occurrence)
        tuple == _get_data_tuple(sptoks, t_sptoks, opinion.polarity)
        written == [acc EXCEPT !.source_data = Append(@, idx),
                               !.out_file = @ \o <<outputtext, LowerStr(asp.text)>>]
    IN  IF acc.raised # NoneRaised THEN acc
        ELSE IF opinion.polarity = "conflict" THEN acc
        ELSE IF ~IsExplicit(asp) THEN acc
        ELSE IF tuple.raised # NoneRaised
        THEN [written EXCEPT !.raised = tuple.raised]
        ELSE [written EXCEPT
                !.source_loc_data =
                    Append(@, [k \in 1 .. Len(idx) |->
                                  RSub(Rat(1, 1), Rat(tuple.pos_info[k], Len(idx)))]),
                !.target_data = Append(@, phrase2idx[LowerStr(Join(t_sptoks))]),
                !.target_label = Append(@, tuple.lab),
                !.out_file = @ \o <<StrOfLab(tuple.lab)>>]

RECURSIVE Pass2Opinions(_, _, _, _, _, _)
Pass2Opinions(acc, sent, sptoks, idx, opinions, phrase2idx) ==
    IF Len(opinions) = 0 THEN acc
    ELSE Pass2Opinions(Pass2Opinion(acc, sent, sptoks, idx, Head(opinions), phrase2idx),
                       sent, sptoks, idx, Tail(opinions), phrase2idx)

\* lines 203-236: one <sentence> in the second pass
Pass2Sentence(acc, sentence, word2idx, phrase2idx) ==
    LET sptoks == word_tokenize(CollapseSpaces(sentence.text))
        idx == [k \in 1 .. Len(sptoks) |-> word2idx[LowerStr(sptoks[k])]]
    IN  IF Len(sptoks) = 0 THEN acc
        ELSE Pass2Opinions(acc, sentence.text, sptoks, idx, sentence.opinions,
                           phrase2idx)

RECURSIVE Pass2(_, _, _, _)
Pass2(acc, sentences, word2idx, phrase2idx) ==
    IF Len(sentences) = 0 THEN acc
    ELSE Pass2(Pass2Sentence(acc, Head(sentences), word2idx, phrase2idx),
               Tail(sentences), word2idx, phrase2idx)

\* lines 239-245: the percentages divide by the number of opinions and by the
\* number of labels
FinalReport(implicit, confl, data, labels) ==
    IF implicit + confl + Len(data) = 0 THEN Raised("ZeroDivisionError", 240)
    ELSE IF Len(labels) = 0 THEN Raised("ZeroDivisionError", 243)
    ELSE NoneRaised

-----------------------------------------------------------------------------
(* The corpus file is written, then read_book_hotel is called on it with    *)
(* empty vocabularies.                                                      *)

RECURSIVE NumOpinions(_)
NumOpinions(sentences) ==
    IF Len(sentences) = 0 THEN 0
    ELSE Len(Head(sentences).opinions) + NumOpinions(Tail(sentences))

RbInit ==
    /\ rb_pc = "file"
    /\ rb_calls = 1
    /\ is_file = TRUE
    /\ in_file = <<>>
    /\ source_count = <<>>
    /\ source_word2idx = <<>>
    /\ target_count = <<>>
    /\ target_phrase2idx = <<>>
    /\ out_file = Unset
    /\ source_data = Unset
    /\ source_loc_data = Unset
    /\ target_data = Unset
    /\ target_label = Unset
    /\ max_sent_len = 0
    /\ max_target_len = 0
    /\ count_implicit = 0
    /\ count_confl = 0
    /\ raised = NoneRaised
    /\ FwdIdle
    /\ SmIdle
    /\ RnIdle
    /\ CtIdle

\* a <sentence> with its <text> is appended to the corpus file
AddSentence ==
    /\ rb_pc = "file"
    /\ Len(in_file) < MaxSentences
    /\ \E text \in Texts :
          in_file' = Append(in_file, [text |-> text, opinions |-> <<>>])
    /\ UNCHANGED <<rb_pc, rb_calls, is_file, source_count, source_word2idx, target_count,
                   target_phrase2idx, out_file, source_data, source_loc_data,
                   target_data, target_label, max_sent_len, max_target_len,
                   count_implicit, count_confl, raised>>
    /\ UNCHANGED <<fwdVars, smVars, rnVars, ctVars>>

\* an <Opinion> is appended to the last sentence of the corpus file
AddOpinion ==
    /\ rb_pc = "file"
    /\ Len(in_file) > 0
    /\ NumOpinions(in_file) < MaxOpinions
    /\ \E opinion \in Opinions :
          in_file' = [in_file EXCEPT ![Len(in_file)].opinions = Append(@, opinion)]
    /\ UNCHANGED <<rb_pc, rb_calls, is_file, source_count, source_word2idx, target_count,
                   target_phrase2idx, out_file, source_data, source_loc_data,
                   target_data, target_label, max_sent_len, max_target_len,
                   count_implicit, count_confl, raised>>
    /\ UNCHANGED <<fwdVars, smVars, rnVars, ctVars>>

\* lines 157-245: what the call leaves behind for a parsed corpus
Ingest(sentences, s_count, s_word2idx, t_count, t_phrase2idx) ==
    LET p1 == Pass1(Pass1Start, sentences)
        counted == ExtendSourceCount(s_count, p1.source_words \o p1.target_words)
        phrases == t_count \o most_common(p1.target_phrases)
        word2idx == IndexAll(s_word2idx, counted)
        phrase2idx == IndexAll(t_phrase2idx, phrases)
        p2 == Pass2(Pass2Start, sentences, word2idx, phrase2idx)
    IN  [source_count |-> counted,
         target_count |-> phrases,
         source_word2idx |-> word2idx,
         target_phrase2idx |-> phrase2idx,
         p1 |-> p1,
         p2 |-> p2,
         raised |-> IF p2.raised # NoneRaised THEN p2.raised
                    ELSE FinalReport(p1.count_implicit, p1.count_confl,
                                     p2.source_data, p2.target_label)]

\* lines 126-247
read_book_hotel ==
    /\ rb_pc = "file"
    /\ IF ~is_file
       THEN \* lines 146-147: raise of a str, which is a TypeError
            /\ raised' = Raised("TypeError", 147)
            /\ UNCHANGED <<source_count, source_word2idx, target_count,
                           target_phrase2idx, out_file, source_data,
                           source_loc_data, target_data, target_label,
                           max_sent_len, max_target_len, count_implicit,
                           count_confl>>
       ELSE \E r \in {Ingest(in_file, source_count, source_word2idx, target_count,
                             target_phrase2idx)} :
                /\ source_count' = r.source_count
                /\ target_count' = r.target_count
                /\ source_word2idx' = r.source_word2idx
                /\ target_phrase2idx' = r.target_phrase2idx
                /\ max_sent_len' = r.p1.max_sent_len
                /\ max_target_len' = r.p1.max_target_len
                /\ count_implicit' = r.p1.count_implicit
                /\ count_confl' = r.p1.count_confl
                /\ source_data' = r.p2.source_data
                /\ source_loc_data' = r.p2.source_loc_data
                /\ target_data' = r.p2.target_data
                /\ target_label' = r.p2.target_label
                /\ out_file' = r.p2.out_file
                /\ raised' = r.raised
    /\ rb_pc' = "done"
    /\ UNCHANGED <<rb_calls, is_file, in_file>>
    /\ UNCHANGED <<fwdVars, smVars, rnVars, ctVars>>

RbNext == AddSentence \/ AddOpinion \/ read_book_hotel

SpecIngest == RbInit /\ [][RbNext]_vars

-----------------------------------------------------------------------------
(* Several calls of read_book_hotel, one after the other, on the same        *)
(* source_count, source_word2idx, target_count, target_phrase2idx (empty at  *)
(* first) and the same side file.                                            *)

\* most calls
MaxCalls == 2

\* the corpus files of the calls: one sentence with at most one opinion
CallFiles ==
    {<<[text |-> text, opinions |-> opinions]>> :
        text \in Texts,
        opinions \in {<<>>} \cup {<<opinion>> : opinion \in Opinions}}

CallsInit ==
    /\ rb_pc = "new"
    /\ rb_calls = 0
    /\ is_file = FALSE
    /\ in_file = <<>>
    /\ source_count = <<>>
    /\ source_word2idx = <<>>
    /\ target_count = <<>>
    /\ target_phrase2idx = <<>>
    /\ out_file = <<>>
    /\ source_data = Unset
    /\ source_loc_data = Unset
    /\ target_data = Unset
    /\ target_label = Unset
    /\ max_sent_len = 0
    /\ max_target_len = 0
    /\ count_implicit = 0
    /\ count_confl = 0
    /\ raised = NoneRaised
    /\ FwdIdle
    /\ SmIdle
    /\ RnIdle
    /\ CtIdle

\* the caller names the corpus file of its next call: a file of CallFiles, or
\* a path where there is no file; what the call before returned is dropped
NextFile ==
    /\ rb_pc \in {"new", "done"}
    /\ rb_calls < MaxCalls
    /\ \/ is_file' = TRUE /\ in_file' \in CallFiles
       \/ is_file' = FALSE /\ in_file' = <<>>
    /\ rb_calls' = rb_calls + 1
    /\ rb_pc' = "file"
    /\ source_data' = Unset
    /\ source_loc_data' = Unset
    /\ target_data' = Unset
    /\ target_label' = Unset
    /\ max_sent_len' = 0
    /\ max_target_len' = 0
    /\ count_implicit' = 0
    /\ count_confl' = 0
    /\ raised' = NoneRaised
    /\ UNCHANGED <<source_count, source_word2idx, target_count,
                   target_phrase2idx, out_file>>
    /\ UNCHANGED <<fwdVars, smVars, rnVars, ctVars>>

CallsNext == NextFile \/ read_book_hotel

SpecCalls == CallsInit /\ [][CallsNext]_vars

-----------------------------------------------------------------------------
(* Properties of read_book_hotel *)

RbDone == rb_pc = "done"

RECURSIVE AllOpinions(_)
\* every <Opinion> of the corpus with the text of its sentence, in file order
AllOpinions(sentences) ==
    IF Len(sentences) = 0 THEN <<>>
    ELSE [i \in 1 .. Len(Head(sentences).opinions) |->
            [text |-> Head(sentences).text,
             opinion |-> Head(sentences).opinions[i]]]
         \o AllOpinions(Tail(sentences))

IsConflict(e) == e.opinion.polarity = "conflict"

\* the target is 'NULL' or absent
IsImplicit(e) == ~e.opinion.target.given \/ e.opinion.target.text = Str_NULL

HasWord(text) == \E i \in 1 .. Len(text) : text[i] # " "

\* an opinion the second pass works on
IsExample(e) == ~IsConflict(e) /\ ~IsImplicit(e) /\ HasWord(e.text)

Examples == SelectSeq(AllOpinions(in_file), IsExample)

NumberOf(seq, Test(_)) == Cardinality({i \in 1 .. Len(seq) : Test(seq[i])})

IsImplicitNonConflict(e) == IsImplicit(e) /\ ~IsConflict(e)

\* neither the whole-word search nor the substring search finds an n-th
\* occurrence of the lower-cased target in the lower-cased sentence
NotLocated(e) ==
    LET sent == LowerStr(e.text)
        asp == LowerStr(e.opinion.target.text)
    IN  /\ Cardinality(WholeWordOccurrences(sent, asp)) < e.opinion.occurrence
        /\ Cardinality({i \in 0 .. Len(sent) : OccursAt(sent, asp, i)})
               < e.opinion.occurrence

KnownPolarity(e) == e.opinion.polarity \in {"negative", "neutral", "positive"}

\* C9: every opinion the second pass reaches whose target's n-th occurrence is
\* found neither as a whole word nor as a substring is emitted with the
\* sentence unchanged (three lines in the side file, a label), and ingestion
\* goes on past it instead of aborting.
C9_NonFatalDataError ==
    RbDone =>
        \A k \in 1 .. Len(source_data) :
            (NotLocated(Examples[k]) /\ KnownPolarity(Examples[k])) =>
                /\ Len(out_file) >= 3 * k
                /\ out_file[3 * k - 2] = LowerStr(Examples[k].text)
                /\ Len(target_label) >= k

\* C10: after read_book_hotel returns, source_data, source_loc_data,
\* target_data, target_label and the side file hold exactly one entry per
\* opinion that is neither 'conflict' nor has a 'NULL' or absent target, in
\* file order; count_implicit is the number of non-conflict opinions with a
\* NULL or absent target and count_confl the number of conflict opinions.
C10_ConflictImplicitExcluded ==
    (RbDone /\ raised = NoneRaised) =>
        /\ Len(source_data) = Len(Examples)
        /\ Len(source_loc_data) = Len(Examples)
        /\ Len(target_data) = Len(Examples)
        /\ Len(target_label) = Len(Examples)
        /\ Len(out_file) = 3 * Len(Examples)
        /\ \A k \in 1 .. Len(Examples) :
              /\ out_file[3 * k - 1] = LowerStr(Examples[k].opinion.target.text)
              /\ out_file[3 * k] = StrOfLab(target_label[k])
              /\ target_label[k] =
                    (CASE Examples[k].opinion.polarity = "negative" -> -1
                       [] Examples[k].opinion.polarity = "neutral" -> 0
                       [] Examples[k].opinion.polarity = "positive" -> 1)
        /\ count_implicit = NumberOf(AllOpinions(in_file), IsImplicitNonConflict)
        /\ count_confl = NumberOf(AllOpinions(in_file), IsConflict)

\* a corpus with a conflict opinion, an implicit opinion and an emitted one
C10_Witness ==
    /\ RbDone
    /\ raised = NoneRaised
    /\ count_confl = 1
    /\ count_implicit = 1
    /\ Len(target_label) = 1
    /\ Len(out_file) = 3

\* the label of a recognised polarity
LabelOf(polarity) ==
    CASE polarity = "negative" -> -1
      [] polarity = "neutral" -> 0
      [] polarity = "positive" -> 1

-----------------------------------------------------------------------------
(* Properties of a sequence of calls *)

\* a call on a path where there is no file ends
MissingFileCall == rb_pc = "file" /\ ~is_file /\ rb_pc' = "done"

\* the exception says that a file was not found
SignalsNotFound(r) == r.type \in {"FileNotFoundError", "IOError", "OSError"}

VocabularyUnchanged ==
    /\ source_count' = source_count
    /\ source_word2idx' = source_word2idx
    /\ target_count' = target_count
    /\ target_phrase2idx' = target_phrase2idx

\* C12: a call whose in_file does not exist ends in an exception that signals
\* file-not-found, with the side file not opened or truncated and
\* source_count, source_word2idx, target_count and target_phrase2idx as they
\* were.
C12_MissingFileSignalled ==
    [][MissingFileCall =>
          /\ SignalsNotFound(raised')
          /\ out_file' = out_file
          /\ VocabularyUnchanged]_vars

\* What the code does: the call ends in an exception before the side file and
\* the vocabularies are touched, but the exception is the TypeError of
\* raising a str.
C12_AbortsBeforeSideEffects ==
    [][MissingFileCall =>
          /\ raised' = Raised("TypeError", 147)
          /\ out_file' = out_file
          /\ VocabularyUnchanged]_vars

\* a call on a missing file after a call that wrote the side file and filled
\* the vocabularies
C12_Witness ==
    /\ RbDone
    /\ ~is_file
    /\ rb_calls = 2
    /\ Len(out_file) = 3
    /\ Len(source_count) > 1
    /\ raised.type # "none"

\* the dict gives its keys the indices 0 .. len-1, each once
IsIndexing(word2idx) ==
    /\ \A v, w \in DOMAIN word2idx : word2idx[v] = word2idx[w] => v = w
    /\ {word2idx[w] : w \in DOMAIN word2idx} = 0 .. (Cardinality(DOMAIN word2idx) - 1)

IndicesOf(word2idx) == {word2idx[w] : w \in DOMAIN word2idx}

\* the indices the call stored are indices of the dictionaries: those of the
\* tokens of the example's sentence and of its target phrase
StoredIndicesKnown ==
    /\ \A k \in 1 .. Len(source_data) :
          LET sptoks == word_tokenize(CollapseSpaces(Examples[k].text))
          IN  /\ Len(source_data[k]) = Len(sptoks)
              /\ \A j \in 1 .. Len(sptoks) :
                    /\ source_data[k][j] \in IndicesOf(source_word2idx)
                    /\ source_data[k][j] = source_word2idx[LowerStr(sptoks[j])]
    /\ \A k \in 1 .. Len(target_data) :
          /\ target_data[k] \in IndicesOf(target_phrase2idx)
          /\ target_data[k] =
                target_phrase2idx[LowerStr(Join(word_tokenize(
                    CollapseSpaces(Examples[k].opinion.target.text))))]

PadIsZero == Str_pad \in DOMAIN source_word2idx /\ source_word2idx[Str_pad] = 0

\* an index once given to a key stays
Keeps(word2idx, word2idx_next) ==
    \A w \in DOMAIN word2idx :
        w \in DOMAIN word2idx_next /\ word2idx_next[w] = word2idx[w]

IndicesKept ==
    /\ Keeps(source_word2idx, source_word2idx')
    /\ Keeps(target_phrase2idx, target_phrase2idx')

\* some call got as far as reading its corpus file
SomeFileRead == Len(source_count) > 0

\* C14 as claimed: after every call of a sequence of calls on shared, initially
\* empty vocabularies, '<pad>' has index 0 in source_word2idx, each dictionary
\* gives its keys the indices 0 .. len-1 injectively, every index stored in
\* source_data and target_data is an index of the dictionaries, and no call
\* changes an index given before.
C14_VocabularyInvariant ==
    /\ [](RbDone =>
            /\ PadIsZero
            /\ IsIndexing(source_word2idx)
            /\ IsIndexing(target_phrase2idx)
            /\ StoredIndicesKnown)
    /\ [][IndicesKept]_vars

\* C14 amended: the same, with '<pad>' at index 0 once some call of the
\* sequence has found and read its corpus file (a call on a missing file
\* leaves the dictionaries as they were, empty if it is the first).
C14_VocabularyInvariantOnceRead ==
    /\ [](RbDone =>
            /\ SomeFileRead => PadIsZero
            /\ IsIndexing(source_word2idx)
            /\ IsIndexing(target_phrase2idx)
            /\ StoredIndicesKnown)
    /\ [][IndicesKept]_vars

\* a second call that meets the words of the first again and adds a new one,
\* and returns examples
C14_Witness ==
    /\ RbDone
    /\ rb_calls = 2
    /\ raised = NoneRaised
    /\ Len(source_count) > Cardinality(DOMAIN source_word2idx)
    /\ Cardinality(DOMAIN source_word2idx) = 4
    /\ Len(source_data) = 1
    /\ Len(target_data) = 1
    /\ target_data[1] = 1

-----------------------------------------------------------------------------
(* concatenate_tensors (bertmasker_lcr.py, lines 73-106) *)

\* torch.mean(descriptor, dim=0)
DescriptorMean(descr) ==
    [j \in 1 .. Len(descr[1]) |->
        Rat(IntSum([i \in 0 .. (Len(descr) - 1) |-> descr[i + 1][j]], Len(descr)),
            Len(descr))]

\* torch.cat((representation, descr), dim=-1) at one position, times the mask
CatMasked(token, descr, mask) ==
    [j \in 1 .. (Len(token) + Len(descr)) |->
        RMul(IF j <= Len(token) THEN Rat(token[j], 1) ELSE descr[j - Len(token)],
             Rat(mask, 1))]

\* the row of an integer matrix as fractions
RowOf(descr, i) == [j \in 1 .. Len(descr[i]) |-> Rat(descr[i][j], 1)]

\* concatenate_tensors without the mask on the second concatenation
concatenate_tensors_unmasked_mean(repr, descr, domains, masks) ==
    [b \in 1 .. Len(repr) |->
        [i \in Pos |->
            <<CatMasked(repr[b][i], RowOf(descr, domains[b] + 1), masks[b][i]),
              CatMasked(repr[b][i], DescriptorMean(descr), 1)>>]]

\* lines 73-106
concatenate_tensors(repr, descr, domains, masks) ==
    [b \in 1 .. Len(repr) |->
        [i \in Pos |->
            <<CatMasked(repr[b][i], RowOf(descr, domains[b] + 1), masks[b][i]),
              CatMasked(repr[b][i], DescriptorMean(descr), masks[b][i])>>]]

\* batch sizes
BatchSizes == {1, 2}

\* the hidden representation of one example, width d = 1
RepresentationRows == {[i \in Pos |-> <<i + 1>>], [i \in Pos |-> <<-2>>]}

\* rows of the descriptor matrix, width L = 2
DescriptorRows == {<<-1, 0>>, <<3, 1>>, <<0, 2>>}

\* numbers of domains
DomainCounts == {2, 3}

CtInit ==
    /\ ct_pc = "call"
    /\ \E batch \in BatchSizes, domains \in DomainCounts :
          /\ representation \in [1 .. batch -> RepresentationRows]
          /\ descriptor \in [1 .. domains -> DescriptorRows]
          /\ domain_list \in [1 .. batch -> 0 .. (domains - 1)]
          /\ att_masks \in [1 .. batch -> {PrefixMask(len) : len \in 0 .. MAX_LENGTH}]
    /\ ct_out = Unset
    /\ FwdIdle
    /\ SmIdle
    /\ RnIdle
    /\ RbIdle

ConcatenateTensors ==
    /\ ct_pc = "call"
    /\ ct_out' = concatenate_tensors(representation, descriptor, domain_list, att_masks)
    /\ ct_pc' = "returned"
    /\ UNCHANGED <<representation, descriptor, domain_list, att_masks>>
    /\ UNCHANGED <<fwdVars, smVars, rnVars, rbVars>>

CtNext == ConcatenateTensors

SpecConcat == CtInit /\ [][CtNext]_vars

CtReturned == ct_pc = "returned"

\* x is the fraction n / 1
IsInt(x, n) == x.num = n * x.den

\* x is the unweighted mean of column j of the descriptor matrix
IsColumnMean(x, j) ==
    x.num * Len(descriptor) =
        x.den * IntSum([i \in 0 .. (Len(descriptor) - 1) |-> descriptor[i + 1][j]],
                       Len(descriptor))

\* the entry is the token representation followed by the example's own
\* descriptor row
OwnEntry(b, i) ==
    LET e == ct_out[b][i][1]
        token == representation[b][i]
        row == descriptor[domain_list[b] + 1]
    IN  /\ Len(e) = Len(token) + Len(row)
        /\ \A j \in 1 .. Len(token) : IsInt(e[j], token[j])
        /\ \A j \in 1 .. Len(row) : IsInt(e[Len(token) + j], row[j])

\* the entry is the token representation followed by the mean descriptor row
MeanEntry(b, i) ==
    LET e == ct_out[b][i][2]
        token == representation[b][i]
    IN  /\ Len(e) = Len(token) + Len(descriptor[1])
        /\ \A j \in 1 .. Len(token) : IsInt(e[j], token[j])
        /\ \A j \in 1 .. Len(descriptor[1]) : IsColumnMean(e[Len(token) + j], j)

AllZero(e) == \A j \in 1 .. Len(e) : e[j].num = 0

CtShape ==
    /\ Len(ct_out) = Len(representation)
    /\ \A b \in 1 .. Len(ct_out) :
          DOMAIN ct_out[b] = Pos /\ \A i \in Pos : Len(ct_out[b][i]) = 2

\* C13: concatenate_tensors returns, per example and position, a stack of two
\* entries: at a real position the token representation followed by the
\* descriptor row of the example's domain label, and the token representation
\* followed by the unweighted mean of all descriptor rows; at a padding
\* position both entries are all zero; the descriptor matrix is not changed.
C13_DescriptorCombine ==
    /\ [](CtReturned =>
            /\ CtShape
            /\ \A b \in 1 .. Len(representation) : \A i \in Pos :
                  IF att_masks[b][i] = 0
                  THEN AllZero(ct_out[b][i][1]) /\ AllZero(ct_out[b][i][2])
                  ELSE OwnEntry(b, i) /\ MeanEntry(b, i))
    /\ [][descriptor' = descriptor]_vars

\* two examples of different domains, one with padding, a mean that is none
\* of the rows
C13_Witness ==
    /\ CtReturned
    /\ Len(representation) = 2
    /\ domain_list[1] # domain_list[2]
    /\ descriptor[domain_list[1] + 1] # descriptor[domain_list[2] + 1]
    /\ att_masks[1][MAX_LENGTH - 1] = 0
    /\ att_masks[1][0] = 1
    /\ att_masks[2][MAX_LENGTH - 1] = 1
    /\ ct_out[1][0][2] # ct_out[1][0][1]
    /\ ct_out[2][0][1] # ct_out[1][0][1]
    /\ AllZero(ct_out[1][MAX_LENGTH - 1][2])

====
